---- MODULE Spec2Model ----
(***************************************************************************)
(* Model of tip-distributor/src/merkle_root_upload_workflow.rs:            *)
(* upload_merkle_root reconciles the locally generated merkle trees with   *)
(* the on-ledger TipDistributionAccounts and uploads the missing or stale  *)
(* roots, retrying the submission for a bounded time.                      *)
(*                                                                         *)
(* The workflow is one async block; every `.await` on the RPC client is a  *)
(* suspension point at which the ledger (claims by other parties, the      *)
(* processing of submitted transactions) may move, so each RPC call is one *)
(* action.  Time is in seconds.                                            *)
(***************************************************************************)
EXTENDS Integers, Sequences, FiniteSets

(* ------------------------------ bounds --------------------------------- *)

\* Number of trees in the GeneratedMerkleTreeCollection read from the file.
NumTrees == 2

\* Seconds one RPC read (get_balance, get_account) may take: 0 or LatencyStep.
LatencyStep == 20

\* total_funds_claimed recorded by a claim of another party.
ClaimedAmount == 500

(* ------------------------- program constants --------------------------- *)

\* const MAX_RETRY_DURATION: Duration = Duration::from_secs(60);
MAX_RETRY_DURATION == 60

\* solana_program::fee_calculator::DEFAULT_TARGET_LAMPORTS_PER_SIGNATURE
DEFAULT_TARGET_LAMPORTS_PER_SIGNATURE == 10000

\* solana_program::native_token::LAMPORTS_PER_SOL
LAMPORTS_PER_SOL == 1000000000

\* Pause of the retry loop between dispatching a round and checking the
\* signatures statuses.
SleepInterval == 20

(* ------------------------------- data ---------------------------------- *)

\* keypair.pubkey() and the address of some other upload authority.
SignerKey == "signer"
OtherKey == "other"
Pubkeys == {SignerKey, OtherKey}

TreeIds == 1..NumTrees

\* Hash::to_bytes(): the 32 bytes of the digest.  A digest is modelled by a
\* number, its bytes by the one-element tuple holding it.
ToBytes(hash) == <<hash>>

\* The digest stored on the ledger by an earlier, superseded upload.
SupersededRoot == NumTrees + 1

\* Option<T>: None is the empty tuple, Some(x) the tuple <<x>>.
None == <<>>
Some(x) == <<x>>
IsSome(o) == Len(o) = 1
Unwrap(o) == o[1]

\* state::MerkleRoot { root, total_funds_claimed, .. }
MerkleRootRec(root, claimed) == [root |-> root, total_funds_claimed |-> claimed]

\* What the RPC node holds at an address: no account ("missing"), an account
\* whose data is no TipDistributionAccount ("malformed"), or one that
\* deserializes ("ok") with its Option<MerkleRoot>.
Account(kind, mr) == [kind |-> kind, merkle_root |-> mr]

\* GeneratedMerkleTree number i of the collection.  Tree i targets the
\* distribution account i and carries the digest i.
Tree(i, authority) ==
    [tip_distribution_account |-> i,
     merkle_root_upload_authority |-> authority,
     merkle_root |-> i,
     max_total_claim |-> 100 * i,
     max_num_nodes |-> i + 1]

\* The accounts a distribution address i may hold before the workflow runs.
InitialAccounts(i) ==
    {Account("missing", None), Account("malformed", None), Account("ok", None)}
    \cup {Account("ok", Some(MerkleRootRec(r, c))) :
            r \in {ToBytes(i), ToBytes(SupersededRoot)}, c \in {0, ClaimedAmount}}

VARIABLES
    collection,           \* merkle_tree.generated_merkle_trees
    ledger,               \* address -> account held by the ledger
    balance,              \* lamports of the signer on the ledger
    clock,                \* seconds since the run started
    rerun,                \* FALSE in the first run, TRUE in the second
    pc,                   \* position of upload_merkle_root
    recent_blockhash,     \* Some(token) once fetched
    tokenTime,            \* clock when recent_blockhash was fetched
    trees,                \* the filtered candidates (indices of collection)
    initial_balance,      \* Some(balance) once fetched
    treeIdx,              \* position of `for tree in trees`
    fetched,              \* tree -> Option of the account deserialized for it
    trees_needing_update, \* Vec<GeneratedMerkleTree> (indices)
    transactions,         \* Vec<Transaction>
    max_send_duration,    \* argument of send_transactions_with_retry
    retryStart,           \* clock when send_transactions_with_retry was called
    transactions_to_send, \* transactions not yet observed as confirmed
    submitted,            \* transactions sent to the ledger in this run
    landed,               \* transactions of this run processed by the ledger
    lastRoundStart,       \* Some(clock) of the latest submission round
    reported,             \* transactions reported as unconfirmed
    outcome,              \* result of upload_merkle_root
    overwroteClaimed,     \* an upload took effect on an account with claims
    prev,                 \* what the first run read, built and confirmed
    requested,            \* addresses get_account was called for in this run
    confirmedSeen,        \* transactions the submitter observed as confirmed
    roundSent,            \* transactions dispatched in the round under way
    deposit               \* Some(amounts of the panic message of the preflight)

vars == <<collection, ledger, balance, clock, rerun, pc, recent_blockhash,
          tokenTime, trees, initial_balance, treeIdx, fetched,
          trees_needing_update, transactions, max_send_duration, retryStart,
          transactions_to_send, submitted, landed, lastRoundStart, reported,
          outcome, overwroteClaimed, prev,
                   requested, confirmedSeen, roundSent, deposit>>

(* ------------------------- pure computations --------------------------- *)

\* into_iter().filter(..).collect() from position i on: the positions, in
\* order, of the trees whose upload authority is pubkey.
RECURSIVE FilterFrom(_, _, _)
FilterFrom(coll, pubkey, i) ==
    IF i > Len(coll) THEN <<>>
    ELSE (IF coll[i].merkle_root_upload_authority = pubkey THEN <<i>> ELSE <<>>)
         \o FilterFrom(coll, pubkey, i + 1)

\* The selection with the order of the collection reversed.
RECURSIVE ReverseSeq(_)
ReverseSeq(s) == IF s = <<>> THEN <<>> ELSE Append(ReverseSeq(Tail(s)), Head(s))
SelectTrees_Reversed(coll, pubkey) == ReverseSeq(FilterFrom(coll, pubkey, 1))

\* The selection without the filter: every tree of the collection.
SelectTrees_Unfiltered(coll, pubkey) == [k \in 1..Len(coll) |-> k]

\* .filter(|tree| tree.merkle_root_upload_authority == keypair.pubkey())
SelectTrees(coll, pubkey) == FilterFrom(coll, pubkey, 1)

\* trees.len() as u64 * DEFAULT_TARGET_LAMPORTS_PER_SIGNATURE.  The product
\* stays far below 2^64 for any collection a file can hold, so the u64
\* multiplication never wraps.
DesiredBalance(n) == n * DEFAULT_TARGET_LAMPORTS_PER_SIGNATURE

\* The comparison with the boundary excluded: `<=` for `<`.
InsufficientFunds_Inclusive(bal, n) == bal <= DesiredBalance(n)

\* if initial_balance < desired_balance { panic!(..) }
InsufficientFunds(bal, n) == bal < DesiredBalance(n)

\* The division without the rounding term: the shortfall rounded down.
SolToDeposit_RoundsDown(desired_balance, initial_balance_) ==
    (desired_balance - initial_balance_) \div LAMPORTS_PER_SOL

\* let sol_to_deposit = (desired_balance - initial_balance + LAMPORTS_PER_SOL
\* - 1) / LAMPORTS_PER_SOL;  The operands are u64; with a candidate count a
\* file can hold they stay far below 2^64.
SolToDeposit(desired_balance, initial_balance_) ==
    (desired_balance - initial_balance_ + LAMPORTS_PER_SOL - 1) \div LAMPORTS_PER_SOL

\* The amounts of the panic message: desired_balance, initial_balance and
\* sol_to_deposit.
PanicAmounts(desired_balance, initial_balance_) ==
    [desired |-> desired_balance,
     initial |-> initial_balance_,
     sol_to_deposit |-> SolToDeposit(desired_balance, initial_balance_)]

\* The decision with the total_funds_claimed test left out.
NeedsUpload_IgnoresClaims(account, tree) ==
    IF IsSome(account.merkle_root)
    THEN Unwrap(account.merkle_root).root # ToBytes(tree.merkle_root)
    ELSE TRUE

\* The decision with the comparison of the root bytes left out.
NeedsUpload_IgnoresRoot(account, tree) ==
    IF IsSome(account.merkle_root)
    THEN Unwrap(account.merkle_root).total_funds_claimed = 0
    ELSE TRUE

\* let needs_upload = match fetched_tip_distribution_account.merkle_root {..}
NeedsUpload(account, tree) ==
    IF IsSome(account.merkle_root)
    THEN /\ Unwrap(account.merkle_root).total_funds_claimed = 0
         /\ Unwrap(account.merkle_root).root # ToBytes(tree.merkle_root)
    ELSE TRUE

\* The instruction built with max_total_claim and max_num_nodes exchanged.
BuildTransaction_SwapsCaps(tree, pubkey, blockhash) ==
    [instructions |-> 1,
     root |-> ToBytes(tree.merkle_root),
     max_total_claim |-> tree.max_num_nodes,
     max_num_nodes |-> tree.max_total_claim,
     tip_distribution_account |-> tree.tip_distribution_account,
     merkle_root_upload_authority |-> pubkey,
     payer |-> pubkey,
     recent_blockhash |-> blockhash]

\* upload_merkle_root_ix + Transaction::new_signed_with_payer(&[ix], ..) for
\* one tree: a transaction of one instruction.
BuildTransaction(tree, pubkey, blockhash) ==
    [instructions |-> 1,
     root |-> ToBytes(tree.merkle_root),
     max_total_claim |-> tree.max_total_claim,
     max_num_nodes |-> tree.max_num_nodes,
     tip_distribution_account |-> tree.tip_distribution_account,
     merkle_root_upload_authority |-> pubkey,
     payer |-> pubkey,
     recent_blockhash |-> blockhash]

\* trees_needing_update.iter().map(..).collect()
BuildTransactions(needing, coll, pubkey, blockhash) ==
    [k \in 1..Len(needing) |-> BuildTransaction(coll[needing[k]], pubkey, blockhash)]

Range(s) == {s[k] : k \in 1..Len(s)}

(* ------------------------------- Init ---------------------------------- *)

\* Nothing is known of an earlier run.
NoRun == [fetched |-> [i \in TreeIds |-> None], built |-> {}, confirmed |-> {}]

\* The signer holds nothing, one lamport less than the fees of its trees,
\* exactly their fees, or the fees of every tree of the collection.
InitialBalances(coll) ==
    LET n == Len(SelectTrees(coll, SignerKey))
    IN  {0, DesiredBalance(n) - 1, DesiredBalance(n), DesiredBalance(NumTrees)} \cap Nat

Init ==
    /\ collection \in {[i \in TreeIds |-> Tree(i, a[i])] : a \in [TreeIds -> Pubkeys]}
    /\ ledger \in {l \in [TreeIds -> UNION {InitialAccounts(i) : i \in TreeIds}] :
                     \A i \in TreeIds : l[i] \in InitialAccounts(i)}
    /\ balance \in InitialBalances(collection)
    /\ clock = 0
    /\ rerun = FALSE
    /\ pc = "start"
    /\ recent_blockhash = None
    /\ tokenTime = 0
    /\ trees = <<>>
    /\ initial_balance = None
    /\ treeIdx = 1
    /\ fetched = [i \in TreeIds |-> None]
    /\ trees_needing_update = <<>>
    /\ transactions = <<>>
    /\ max_send_duration = 0
    /\ retryStart = 0
    /\ transactions_to_send = {}
    /\ submitted = {}
    /\ landed = {}
    /\ lastRoundStart = None
    /\ reported = {}
    /\ outcome = "running"
    /\ overwroteClaimed = FALSE
    /\ prev = NoRun
    /\ requested = {}
    /\ confirmedSeen = {}
    /\ roundSent = {}
    /\ deposit = None

(* ------------------------ upload_merkle_root --------------------------- *)

Latencies == {0, LatencyStep}

\* The panic of an `expect` or `panic!` inside block_on: the run ends there.
Panic(message) ==
    /\ pc' = "panicked"
    /\ outcome' = message

\* rpc_client.get_latest_blockhash().await.expect("get blockhash")
GetLatestBlockhash ==
    /\ pc = "start"
    /\ recent_blockhash' = Some(IF rerun THEN 2 ELSE 1)
    /\ tokenTime' = clock
    /\ pc' = "select"
    /\ UNCHANGED <<collection, ledger, balance, clock, rerun, trees,
                   initial_balance, treeIdx, fetched, trees_needing_update,
                   transactions, max_send_duration, retryStart,
                   transactions_to_send, submitted, landed, lastRoundStart,
                   reported, outcome, overwroteClaimed, prev,
                   requested, confirmedSeen, roundSent, deposit>>

\* let trees: Vec<GeneratedMerkleTree> = .. .filter(..).collect();
FilterTrees ==
    /\ pc = "select"
    /\ trees' = SelectTrees(collection, SignerKey)
    /\ pc' = "preflight"
    /\ UNCHANGED <<collection, ledger, balance, clock, rerun, recent_blockhash,
                   tokenTime, initial_balance, treeIdx, fetched,
                   trees_needing_update, transactions, max_send_duration,
                   retryStart, transactions_to_send, submitted, landed,
                   lastRoundStart, reported, outcome, overwroteClaimed, prev,
                   requested, confirmedSeen, roundSent, deposit>>

\* The funds heuristic: get_balance, desired_balance, panic on a shortfall.
FundsPreflight ==
    /\ pc = "preflight"
    /\ \E d \in Latencies : clock' = clock + d
    /\ initial_balance' = Some(balance)
    /\ IF InsufficientFunds(balance, Len(trees))
       THEN /\ Panic("insufficient funds")
            /\ deposit' = Some(PanicAmounts(DesiredBalance(Len(trees)), balance))
            /\ treeIdx' = treeIdx
       ELSE /\ pc' = "detect"
            /\ treeIdx' = 1
            /\ UNCHANGED <<outcome, deposit>>
    /\ UNCHANGED <<collection, ledger, balance, rerun, recent_blockhash,
                   tokenTime, trees, fetched, trees_needing_update,
                   transactions, max_send_duration, retryStart,
                   transactions_to_send, submitted, landed, lastRoundStart,
                   reported, overwroteClaimed, prev,
                   requested, confirmedSeen, roundSent>>

\* The iteration submitting a tree's transaction as soon as the tree is found
\* to need the upload, before the remaining accounts are read.
CheckTree_SubmitsAtOnce ==
    /\ pc = "detect"
    /\ treeIdx <= Len(trees)
    /\ \E d \in Latencies : clock' = clock + d
    /\ requested' = requested \cup {collection[trees[treeIdx]].tip_distribution_account}
    /\ LET t == trees[treeIdx]
           tree == collection[t]
           account == ledger[tree.tip_distribution_account]
       IN  IF account.kind = "missing"
           THEN /\ Panic("fetch expect")
                /\ UNCHANGED <<treeIdx, fetched, trees_needing_update, submitted>>
           ELSE IF account.kind = "malformed"
           THEN /\ Panic("failed to deserialize tip_distribution_account state")
                /\ UNCHANGED <<treeIdx, fetched, trees_needing_update, submitted>>
           ELSE /\ fetched' = [fetched EXCEPT ![t] = Some(account)]
                /\ trees_needing_update' =
                      IF NeedsUpload(account, tree)
                      THEN Append(trees_needing_update, t)
                      ELSE trees_needing_update
                /\ submitted' =
                      IF NeedsUpload(account, tree)
                      THEN submitted \cup {BuildTransaction(tree, SignerKey,
                                                            Unwrap(recent_blockhash))}
                      ELSE submitted
                /\ treeIdx' = treeIdx + 1
                /\ UNCHANGED <<pc, outcome>>
    /\ UNCHANGED <<collection, ledger, balance, rerun, recent_blockhash,
                   tokenTime, trees, initial_balance, transactions,
                   max_send_duration, retryStart, transactions_to_send,
                   landed, lastRoundStart, reported, overwroteClaimed, prev,
                   confirmedSeen, roundSent, deposit>>

\* The iteration reading an account that does not exist as an account with no
\* root on record.
CheckTree_MissingAsNoRoot ==
    /\ pc = "detect"
    /\ treeIdx <= Len(trees)
    /\ \E d \in Latencies : clock' = clock + d
    /\ requested' = requested \cup {collection[trees[treeIdx]].tip_distribution_account}
    /\ LET t == trees[treeIdx]
           tree == collection[t]
           onLedger == ledger[tree.tip_distribution_account]
           account == IF onLedger.kind = "missing" THEN Account("ok", None)
                      ELSE onLedger
       IN  IF account.kind = "malformed"
           THEN /\ Panic("failed to deserialize tip_distribution_account state")
                /\ UNCHANGED <<treeIdx, fetched, trees_needing_update>>
           ELSE /\ fetched' = [fetched EXCEPT ![t] = Some(account)]
                /\ trees_needing_update' =
                      IF NeedsUpload(account, tree)
                      THEN Append(trees_needing_update, t)
                      ELSE trees_needing_update
                /\ treeIdx' = treeIdx + 1
                /\ UNCHANGED <<pc, outcome>>
    /\ UNCHANGED <<collection, ledger, balance, rerun, recent_blockhash,
                   tokenTime, trees, initial_balance, transactions,
                   max_send_duration, retryStart, transactions_to_send,
                   submitted, landed, lastRoundStart, reported,
                   overwroteClaimed, prev, confirmedSeen, roundSent, deposit>>

\* One iteration of `for tree in trees`: get_account, try_deserialize, the
\* needs_upload decision and the push.
CheckTree ==
    /\ pc = "detect"
    /\ treeIdx <= Len(trees)
    /\ \E d \in Latencies : clock' = clock + d
    /\ requested' = requested \cup {collection[trees[treeIdx]].tip_distribution_account}
    /\ LET t == trees[treeIdx]
           tree == collection[t]
           account == ledger[tree.tip_distribution_account]
       IN  IF account.kind = "missing"
           THEN /\ Panic("fetch expect")
                /\ UNCHANGED <<treeIdx, fetched, trees_needing_update>>
           ELSE IF account.kind = "malformed"
           THEN /\ Panic("failed to deserialize tip_distribution_account state")
                /\ UNCHANGED <<treeIdx, fetched, trees_needing_update>>
           ELSE /\ fetched' = [fetched EXCEPT ![t] = Some(account)]
                /\ trees_needing_update' =
                      IF NeedsUpload(account, tree)
                      THEN Append(trees_needing_update, t)
                      ELSE trees_needing_update
                /\ treeIdx' = treeIdx + 1
                /\ UNCHANGED <<pc, outcome>>
    /\ UNCHANGED <<collection, ledger, balance, rerun, recent_blockhash,
                   tokenTime, trees, initial_balance, transactions,
                   max_send_duration, retryStart, transactions_to_send,
                   submitted, landed, lastRoundStart, reported,
                   overwroteClaimed, prev, confirmedSeen, roundSent, deposit>>

\* The builder putting every instruction into one transaction, addressed by
\* its first instruction.
BuildAll_OneBatch ==
    /\ pc = "detect"
    /\ treeIdx > Len(trees)
    /\ transactions' =
          IF trees_needing_update = <<>> THEN <<>>
          ELSE <<[BuildTransaction(collection[trees_needing_update[1]], SignerKey,
                                   Unwrap(recent_blockhash))
                    EXCEPT !.instructions = Len(trees_needing_update)]>>
    /\ pc' = "send"
    /\ UNCHANGED <<collection, ledger, balance, clock, rerun, recent_blockhash,
                   tokenTime, trees, initial_balance, treeIdx, fetched,
                   trees_needing_update, max_send_duration, retryStart,
                   transactions_to_send, submitted, landed, lastRoundStart,
                   reported, outcome, overwroteClaimed, prev,
                   requested, confirmedSeen, roundSent, deposit>>

\* The builder mapping over `trees` instead of `trees_needing_update`.
BuildAll_EveryCandidate ==
    /\ pc = "detect"
    /\ treeIdx > Len(trees)
    /\ transactions' = BuildTransactions(trees, collection, SignerKey,
                                         Unwrap(recent_blockhash))
    /\ pc' = "send"
    /\ UNCHANGED <<collection, ledger, balance, clock, rerun, recent_blockhash,
                   tokenTime, trees, initial_balance, treeIdx, fetched,
                   trees_needing_update, max_send_duration, retryStart,
                   transactions_to_send, submitted, landed, lastRoundStart,
                   reported, outcome, overwroteClaimed, prev,
                   requested, confirmedSeen, roundSent, deposit>>

\* let transactions: Vec<Transaction> = trees_needing_update.iter().map(..)
BuildAll ==
    /\ pc = "detect"
    /\ treeIdx > Len(trees)
    /\ transactions' = BuildTransactions(trees_needing_update, collection,
                                         SignerKey, Unwrap(recent_blockhash))
    /\ pc' = "send"
    /\ UNCHANGED <<collection, ledger, balance, clock, rerun, recent_blockhash,
                   tokenTime, trees, initial_balance, treeIdx, fetched,
                   trees_needing_update, max_send_duration, retryStart,
                   transactions_to_send, submitted, landed, lastRoundStart,
                   reported, outcome, overwroteClaimed, prev,
                   requested, confirmedSeen, roundSent, deposit>>

\* The call handing the submitter the transactions but the first.
CallSend_SkipsFirst ==
    /\ pc = "send"
    /\ max_send_duration' = MAX_RETRY_DURATION
    /\ retryStart' = clock
    /\ transactions_to_send' =
          IF transactions = <<>> THEN {} ELSE Range(Tail(transactions))
    /\ pc' = "loop"
    /\ UNCHANGED <<collection, ledger, balance, clock, rerun, recent_blockhash,
                   tokenTime, trees, initial_balance, treeIdx, fetched,
                   trees_needing_update, transactions, submitted, landed,
                   lastRoundStart, reported, outcome, overwroteClaimed, prev,
                   requested, confirmedSeen, roundSent, deposit>>

\* The call handing the submitter twice the duration.
CallSend_DoubleDuration ==
    /\ pc = "send"
    /\ max_send_duration' = 2 * MAX_RETRY_DURATION
    /\ retryStart' = clock
    /\ transactions_to_send' = Range(transactions)
    /\ pc' = "loop"
    /\ UNCHANGED <<collection, ledger, balance, clock, rerun, recent_blockhash,
                   tokenTime, trees, initial_balance, treeIdx, fetched,
                   trees_needing_update, transactions, submitted, landed,
                   lastRoundStart, reported, outcome, overwroteClaimed, prev,
                   requested, confirmedSeen, roundSent, deposit>>

\* send_transactions_with_retry(&rpc_client, &transactions, MAX_RETRY_DURATION)
\* is entered: it is handed the transactions and the duration, and no time.
CallSend ==
    /\ pc = "send"
    /\ max_send_duration' = MAX_RETRY_DURATION
    /\ retryStart' = clock
    /\ transactions_to_send' = Range(transactions)
    /\ pc' = "loop"
    /\ UNCHANGED <<collection, ledger, balance, clock, rerun, recent_blockhash,
                   tokenTime, trees, initial_balance, treeIdx, fetched,
                   trees_needing_update, transactions, submitted, landed,
                   lastRoundStart, reported, outcome, overwroteClaimed, prev,
                   requested, confirmedSeen, roundSent, deposit>>

(* -------------------- send_transactions_with_retry --------------------- *)

\* The loop condition with `||` for `&&`: the loop goes on while something is
\* outstanding, whatever the time.
KeepRetrying_NoDeadline(outstanding, start, now, duration) ==
    \/ outstanding # {}
    \/ now - start < duration

\* The loop condition: something is outstanding and the duration has not
\* elapsed since the function was entered.
KeepRetrying(outstanding, start, now, duration) ==
    /\ outstanding # {}
    /\ now - start < duration

\* A round: every outstanding transaction is submitted.
SubmitRound ==
    /\ pc = "loop"
    /\ KeepRetrying(transactions_to_send, retryStart, clock, max_send_duration)
    /\ submitted' = submitted \cup transactions_to_send
    /\ roundSent' = transactions_to_send
    /\ lastRoundStart' = Some(clock)
    /\ pc' = "sleep"
    /\ UNCHANGED <<collection, ledger, balance, clock, rerun, recent_blockhash,
                   tokenTime, trees, initial_balance, treeIdx, fetched,
                   trees_needing_update, transactions, max_send_duration,
                   retryStart, transactions_to_send, landed, reported, outcome,
                   overwroteClaimed, prev, requested, confirmedSeen, deposit>>

\* The pause and the confirmation check that close a round: the transactions
\* the ledger has processed leave the outstanding set.
CheckConfirmations ==
    /\ pc = "sleep"
    /\ clock' = clock + SleepInterval
    /\ transactions_to_send' = transactions_to_send \ landed
    /\ confirmedSeen' = confirmedSeen \cup (transactions_to_send \cap landed)
    /\ roundSent' = {}
    /\ pc' = "loop"
    /\ UNCHANGED <<collection, ledger, balance, rerun, recent_blockhash,
                   tokenTime, trees, initial_balance, treeIdx, fetched,
                   trees_needing_update, transactions, max_send_duration,
                   retryStart, submitted, landed, lastRoundStart, reported,
                   outcome, overwroteClaimed, prev, requested, deposit>>

\* The loop ends, the outstanding transactions are reported, the function
\* returns; its result is dropped, block_on returns and the workflow
\* returns Ok(()).
ReturnOk ==
    /\ pc = "loop"
    /\ ~KeepRetrying(transactions_to_send, retryStart, clock, max_send_duration)
    /\ reported' = transactions_to_send
    /\ outcome' = "Ok"
    /\ pc' = "returned"
    /\ UNCHANGED <<collection, ledger, balance, clock, rerun, recent_blockhash,
                   tokenTime, trees, initial_balance, treeIdx, fetched,
                   trees_needing_update, transactions, max_send_duration,
                   retryStart, transactions_to_send, submitted, landed,
                   lastRoundStart, overwroteClaimed, prev,
                   requested, confirmedSeen, roundSent, deposit>>

(* ------------------------------ the ledger ----------------------------- *)

HasClaims(account) ==
    /\ IsSome(account.merkle_root)
    /\ Unwrap(account.merkle_root).total_funds_claimed > 0

\* The ledger processes a submitted transaction before the round's
\* confirmation check: the root of the target account becomes the uploaded one, with no claims.
Land(tx) ==
    /\ pc = "sleep"
    /\ tx \in submitted \ landed
    /\ landed' = landed \cup {tx}
    /\ overwroteClaimed' =
          (overwroteClaimed \/ HasClaims(ledger[tx.tip_distribution_account]))
    /\ ledger' = [ledger EXCEPT ![tx.tip_distribution_account] =
                     Account("ok", Some(MerkleRootRec(tx.root, 0)))]
    /\ UNCHANGED <<collection, balance, clock, rerun, pc, recent_blockhash,
                   tokenTime, trees, initial_balance, treeIdx, fetched,
                   trees_needing_update, transactions, max_send_duration,
                   retryStart, transactions_to_send, submitted, lastRoundStart,
                   reported, outcome, prev,
                   requested, confirmedSeen, roundSent, deposit>>

\* Another party claims against the root published at address a, while the
\* workflow reads and submits or between its two runs (a claim made before
\* the run starts is part of the initial ledger).
Claim(a) ==
    /\ pc \in {"detect", "send", "loop", "sleep"} \/ (pc = "returned" /\ ~rerun)
    /\ ledger[a].kind = "ok"
    /\ IsSome(ledger[a].merkle_root)
    /\ Unwrap(ledger[a].merkle_root).total_funds_claimed = 0
    /\ ledger' = [ledger EXCEPT ![a] =
                     Account("ok", Some(MerkleRootRec(Unwrap(ledger[a].merkle_root).root,
                                                      ClaimedAmount)))]
    /\ UNCHANGED <<collection, balance, clock, rerun, pc, recent_blockhash,
                   tokenTime, trees, initial_balance, treeIdx, fetched,
                   trees_needing_update, transactions, max_send_duration,
                   retryStart, transactions_to_send, submitted, landed,
                   lastRoundStart, reported, outcome, overwroteClaimed, prev,
                   requested, confirmedSeen, roundSent, deposit>>

(* ------------------------------- re-run -------------------------------- *)

TreesOf(txs) == {tx.tip_distribution_account : tx \in txs}

\* The operator runs the workflow again over the same collection and signer.
RunAgain ==
    /\ pc = "returned"
    /\ ~rerun
    /\ rerun' = TRUE
    /\ prev' = [fetched |-> [i \in TreeIds |->
                              IF i \in TreesOf(reported) THEN fetched[i] ELSE None],
                built |-> TreesOf(Range(transactions)),
                confirmed |-> TreesOf(Range(transactions) \ reported)]
    /\ clock' = 0
    /\ pc' = "start"
    /\ recent_blockhash' = None
    /\ tokenTime' = 0
    /\ trees' = <<>>
    /\ initial_balance' = None
    /\ treeIdx' = 1
    /\ fetched' = [i \in TreeIds |-> None]
    /\ trees_needing_update' = <<>>
    /\ transactions' = <<>>
    /\ max_send_duration' = 0
    /\ retryStart' = 0
    /\ transactions_to_send' = {}
    /\ submitted' = {}
    /\ landed' = {}
    /\ lastRoundStart' = None
    /\ reported' = {}
    /\ outcome' = "running"
    /\ requested' = {}
    /\ confirmedSeen' = {}
    /\ roundSent' = {}
    /\ deposit' = None
    /\ UNCHANGED <<collection, ledger, balance, overwroteClaimed>>

(* ---------------------------- specification ---------------------------- *)

Workflow ==
    \/ GetLatestBlockhash
    \/ FilterTrees
    \/ FundsPreflight
    \/ CheckTree
    \/ BuildAll
    \/ CallSend
    \/ SubmitRound
    \/ CheckConfirmations
    \/ ReturnOk

\* One run of the workflow against the ledger and the other parties.
SingleRun ==
    \/ Workflow
    \/ \E tx \in submitted : Land(tx)
    \/ \E a \in TreeIds : Claim(a)

Next ==
    \/ SingleRun
    \/ RunAgain

Spec == Init /\ [][Next]_vars

\* One run under the runtime's scheduling: block_on drives the async block
\* to completion, so a step of the workflow that can be taken is eventually
\* taken.  The ledger and the other parties are under no such obligation.
FairSpec == Init /\ [][SingleRun]_vars /\ WF_vars(Workflow)

(* ------------------------------ properties ----------------------------- *)

\* The trees of the collection whose upload authority is the signer.
OwnedTrees == {i \in TreeIds : collection[i].merkle_root_upload_authority = SignerKey}

\* The candidates whose account the Staleness Detector has read in this run.
Evaluated == {t \in TreeIds : IsSome(fetched[t])}

NeedingSet == Range(trees_needing_update)

\* The four rows of the staleness table, on a deserialized account.
TableSaysUpdate(account, tree) ==
    LET mr == account.merkle_root
    IN  CASE ~IsSome(mr) -> TRUE
          [] IsSome(mr) /\ Unwrap(mr).total_funds_claimed = 0
                        /\ Unwrap(mr).root # ToBytes(tree.merkle_root) -> TRUE
          [] IsSome(mr) /\ Unwrap(mr).total_funds_claimed = 0
                        /\ Unwrap(mr).root = ToBytes(tree.merkle_root) -> FALSE
          [] IsSome(mr) /\ Unwrap(mr).total_funds_claimed > 0 -> FALSE

\* C1: every candidate whose account was read is in the "needs update" set
\* exactly when the four-row table says so on the account that was read: no
\* root -> update; root, no claims, other bytes -> update; root, no claims,
\* same bytes -> no update; root with claims -> no update.
C1_StalenessTable ==
    \A t \in Evaluated :
        (t \in NeedingSet) <=> TableSaysUpdate(Unwrap(fetched[t]), collection[t])

\* A run in which one candidate with claims and a differing root was left
\* alone and another, with a superseded root and no claims, was taken.
C1_Witness ==
    \E t, u \in Evaluated :
        /\ HasClaims(Unwrap(fetched[t]))
        /\ Unwrap(Unwrap(fetched[t]).merkle_root).root # ToBytes(collection[t].merkle_root)
        /\ t \notin NeedingSet
        /\ IsSome(Unwrap(fetched[u]).merkle_root)
        /\ ~HasClaims(Unwrap(fetched[u]))
        /\ u \in NeedingSet

\* C2: every transaction built in a run targets a tree whose account, as read
\* in that run, had no merkle_root or one with total_funds_claimed = 0.
C2_BuiltOnlyForUnclaimed ==
    \A k \in 1..Len(transactions) :
        LET t == transactions[k].tip_distribution_account
        IN  /\ t \in Evaluated
            /\ ~HasClaims(Unwrap(fetched[t]))

\* Transactions were built while a candidate whose account showed claims and a
\* differing root got none.
C2_Witness ==
    /\ Len(transactions) > 0
    /\ \E t \in Evaluated :
          /\ HasClaims(Unwrap(fetched[t]))
          /\ Unwrap(Unwrap(fetched[t]).merkle_root).root # ToBytes(collection[t].merkle_root)
          /\ t \notin TreesOf(Range(transactions))

\* C4: a run that ended in a panic (the funds preflight, a failed fetch, a
\* failed deserialization of any candidate's account) has built, submitted
\* and landed nothing.
C4_AbortBeforeMutation ==
    pc = "panicked" =>
        /\ transactions = <<>>
        /\ submitted = {}
        /\ landed = {}

\* The account of the last candidate failed to deserialize after an earlier
\* candidate had been found to need the upload.
C4_Witness ==
    /\ pc = "panicked"
    /\ outcome = "failed to deserialize tip_distribution_account state"
    /\ treeIdx = Len(trees)
    /\ trees_needing_update # <<>>

\* C9: once the balance is fetched, the run has aborted on funds if and only
\* if balance < n * fee constant, n the number of signer-owned trees; with
\* balance = n * fee constant it goes on.
C9_PreflightAbortsIff ==
    IsSome(initial_balance) =>
        /\ Unwrap(initial_balance) = balance
        /\ (outcome = "insufficient funds")
              <=> (balance < Cardinality(OwnedTrees) * DEFAULT_TARGET_LAMPORTS_PER_SIGNATURE)

\* The balance equals the fees of the candidates exactly, fewer trees than
\* candidates need the upload, and the run went on to the detector.
C9_Witness ==
    /\ pc = "send"
    /\ OwnedTrees # {}
    /\ balance = Cardinality(OwnedTrees) * DEFAULT_TARGET_LAMPORTS_PER_SIGNATURE
    /\ Len(trees_needing_update) < Cardinality(OwnedTrees)

\* C10: after the selection, the candidates are exactly the trees of the
\* collection whose upload authority is the signer, in the order of the
\* collection; the ledger plays no part in it.
C10_SelectionIsFilter ==
    pc \notin {"start", "select"} =>
        /\ Range(trees) = OwnedTrees
        /\ \A j, k \in 1..Len(trees) : j < k => trees[j] < trees[k]

\* A tree of another authority was dropped and the signer's trees were kept.
C10_Witness ==
    /\ pc = "preflight"
    /\ trees # <<>>
    /\ OwnedTrees # TreeIds
    /\ collection[1].merkle_root_upload_authority = OtherKey

C5_DeadlineFromToken ==
    IsSome(lastRoundStart) =>
        Unwrap(lastRoundStart) <= tokenTime + MAX_RETRY_DURATION

\* The transactions the ledger has not processed.
NeverLanded == Range(transactions) \ landed

C7_FailureWhenUnconfirmed ==
    pc = "returned" => (outcome = "Ok" <=> reported = {})

\* The trees whose transaction the first run built and left unconfirmed.
LeftUnconfirmed == prev.built \ prev.confirmed

\* C8, as stated: in the second run no tree confirmed by the first run is
\* placed in the "needs update" set, and every tree the first run left
\* unconfirmed is placed in it again.
C8_RerunOriginal ==
    rerun =>
        \A t \in Evaluated :
            /\ t \in prev.confirmed => t \notin NeedingSet
            /\ t \in LeftUnconfirmed => t \in NeedingSet

\* C8, amended: in the second run no tree confirmed by the first run is
\* placed in the "needs update" set, and a tree the first run left
\* unconfirmed is placed in it again when its account is read as the first
\* run read it.
C8_RerunIdempotent ==
    rerun =>
        \A t \in Evaluated :
            /\ t \in prev.confirmed => t \notin NeedingSet
            /\ (t \in LeftUnconfirmed /\ fetched[t] = prev.fetched[t])
                  => t \in NeedingSet

\* The second run has read the accounts of a tree the first run got confirmed
\* and of a tree the first run left unconfirmed.
C8_Witness ==
    /\ rerun
    /\ \E t \in Evaluated : t \in prev.confirmed
    /\ \E u \in Evaluated : u \in LeftUnconfirmed /\ u \in NeedingSet

\* C11: the built transactions correspond one to one, in order, to the trees
\* needing update: transaction k is one instruction carrying the merkle_root,
\* max_total_claim, max_num_nodes and tip_distribution_account of the k-th
\* such tree, with the signer as fee payer and upload authority and the
\* blockhash fetched at the start of the run; no other tree has one.
C11_TransactionsMatchTrees ==
    pc \in {"send", "loop", "sleep", "returned"} =>
        /\ Len(transactions) = Len(trees_needing_update)
        /\ \A j, k \in 1..Len(transactions) :
              j < k => trees_needing_update[j] < trees_needing_update[k]
        /\ \A k \in 1..Len(transactions) :
              LET tx == transactions[k]
                  tree == collection[trees_needing_update[k]]
              IN  /\ tx.instructions = 1
                  /\ tx.root = ToBytes(tree.merkle_root)
                  /\ tx.max_total_claim = tree.max_total_claim
                  /\ tx.max_num_nodes = tree.max_num_nodes
                  /\ tx.tip_distribution_account = tree.tip_distribution_account
                  /\ tx.payer = SignerKey
                  /\ tx.merkle_root_upload_authority = SignerKey
                  /\ tx.recent_blockhash = Unwrap(recent_blockhash)
        /\ recent_blockhash = Some(IF rerun THEN 2 ELSE 1)

\* Two transactions were built for two trees needing update.
C11_Witness ==
    /\ pc = "send"
    /\ Len(transactions) = 2
    /\ trees_needing_update = <<1, 2>>

\* C12: the transactions dispatched in a round are exactly the built ones
\* not yet observed as confirmed; the outstanding set only shrinks from
\* round to round; the submitter gives up on an outstanding transaction only
\* once the duration has elapsed; the built list is never changed.
C12_RoundsSendOutstanding ==
    /\ [](pc = "sleep" => roundSent = Range(transactions) \ confirmedSeen)
    /\ [](pc = "returned" /\ reported # {}
            => clock - retryStart >= max_send_duration)
    /\ [][(pc \in {"loop", "sleep"} /\ pc' \in {"loop", "sleep"})
            => transactions_to_send' \subseteq transactions_to_send]_vars
    /\ [][(pc \in {"send", "loop", "sleep"} /\ pc' # "start")
            => transactions' = transactions]_vars

\* A later round in which a confirmed transaction is left out and an
\* unconfirmed one is dispatched again.
C12_Witness ==
    /\ pc = "sleep"
    /\ confirmedSeen # {}
    /\ roundSent # {}
    /\ roundSent \cap confirmedSeen = {}

ForeignTrees == TreeIds \ OwnedTrees

\* C14: for a tree whose upload authority is not the signer, no get_account
\* is issued for its distribution account, no transaction is built, submitted
\* or processed for it, and no step changes the kind or the root of its
\* account (only another party's claim changes it).
C14_ForeignTreesUntouched ==
    /\ [](\A i \in ForeignTrees :
            /\ collection[i].tip_distribution_account \notin requested
            /\ fetched[i] = None
            /\ i \notin TreesOf(Range(transactions) \cup submitted \cup landed))
    /\ [][\A i \in ForeignTrees :
            LET a == collection[i].tip_distribution_account
            IN  /\ ledger'[a].kind = ledger[a].kind
                /\ IsSome(ledger'[a].merkle_root) = IsSome(ledger[a].merkle_root)
                /\ IsSome(ledger[a].merkle_root) =>
                      Unwrap(ledger'[a].merkle_root).root
                         = Unwrap(ledger[a].merkle_root).root]_vars

\* The run uploaded the root of a signer's tree and returned, next to a tree
\* of another authority whose stale root was left as it was.
C14_Witness ==
    /\ pc = "returned"
    /\ landed # {}
    /\ \E i \in ForeignTrees :
          /\ IsSome(ledger[i].merkle_root)
          /\ Unwrap(ledger[i].merkle_root).root = ToBytes(SupersededRoot)
          /\ Unwrap(ledger[i].merkle_root).total_funds_claimed = 0

(* ------------------- the deposit of the funds preflight ---------------- *)

\* Candidate counts and balances around the first whole SOL of shortfall: far
\* more candidates than the runs above enumerate.
DepositTreeCounts == {1, 2, 3, 99999, 100000, 100001, 100002, 114748}

DepositBalances ==
    {0, 1, 2,
     DEFAULT_TARGET_LAMPORTS_PER_SIGNATURE - 1,
     DEFAULT_TARGET_LAMPORTS_PER_SIGNATURE,
     DEFAULT_TARGET_LAMPORTS_PER_SIGNATURE + 1,
     2 * DEFAULT_TARGET_LAMPORTS_PER_SIGNATURE,
     LAMPORTS_PER_SOL - DEFAULT_TARGET_LAMPORTS_PER_SIGNATURE,
     LAMPORTS_PER_SOL - 1,
     LAMPORTS_PER_SOL,
     LAMPORTS_PER_SOL + 1,
     LAMPORTS_PER_SOL + DEFAULT_TARGET_LAMPORTS_PER_SIGNATURE}

\* The workflow at the funds heuristic, with desired_balance and
\* initial_balance given: deposit holds them, sol_to_deposit not yet computed.
InitDeposit ==
    /\ collection = [i \in TreeIds |-> Tree(i, SignerKey)]
    /\ ledger = [i \in TreeIds |-> Account("ok", None)]
    /\ balance \in DepositBalances
    /\ \E n \in DepositTreeCounts :
          deposit = Some([desired |-> DesiredBalance(n),
                          initial |-> balance,
                          sol_to_deposit |-> 0])
    /\ clock = 0
    /\ rerun = FALSE
    /\ pc = "preflight"
    /\ recent_blockhash = Some(1)
    /\ tokenTime = 0
    /\ trees = SelectTrees(collection, SignerKey)
    /\ initial_balance = Some(balance)
    /\ treeIdx = 1
    /\ fetched = [i \in TreeIds |-> None]
    /\ trees_needing_update = <<>>
    /\ transactions = <<>>
    /\ max_send_duration = 0
    /\ retryStart = 0
    /\ transactions_to_send = {}
    /\ submitted = {}
    /\ landed = {}
    /\ lastRoundStart = None
    /\ reported = {}
    /\ outcome = "running"
    /\ overwroteClaimed = FALSE
    /\ prev = NoRun
    /\ requested = {}
    /\ confirmedSeen = {}
    /\ roundSent = {}

\* if initial_balance < desired_balance { let sol_to_deposit = ..; panic!(..) }
CheckFunds ==
    /\ pc = "preflight"
    /\ LET given == Unwrap(deposit)
       IN  IF given.initial < given.desired
           THEN /\ Panic("insufficient funds")
                /\ deposit' = Some(PanicAmounts(given.desired, given.initial))
           ELSE /\ pc' = "detect"
                /\ UNCHANGED <<outcome, deposit>>
    /\ UNCHANGED <<collection, ledger, balance, clock, rerun, recent_blockhash,
                   tokenTime, trees, initial_balance, treeIdx, fetched,
                   trees_needing_update, transactions, max_send_duration,
                   retryStart, transactions_to_send, submitted, landed,
                   lastRoundStart, reported, overwroteClaimed, prev,
                   requested, confirmedSeen, roundSent>>

DepositSpec == InitDeposit /\ [][CheckFunds]_vars

\* desired_balance - initial_balance of the panic message.
Shortfall == Unwrap(deposit).desired - Unwrap(deposit).initial

\* C15: when the preflight aborts, the shortfall is positive (the subtraction
\* does not underflow) and sol_to_deposit is the shortfall rounded up to whole
\* SOL: at least 1, and k exactly when the shortfall is in
\* ((k-1) * LAMPORTS_PER_SOL, k * LAMPORTS_PER_SOL].
C15_DepositRoundsUp ==
    (pc = "panicked" /\ outcome = "insufficient funds") =>
        LET k == Unwrap(deposit).sol_to_deposit
        IN  /\ Shortfall > 0
            /\ k >= 1
            /\ (k - 1) * LAMPORTS_PER_SOL < Shortfall
            /\ Shortfall <= k * LAMPORTS_PER_SOL

\* An abort with a shortfall of one lamport more than a whole SOL: 2 SOL are
\* asked for.
C15_Witness ==
    /\ pc = "panicked"
    /\ outcome = "insufficient funds"
    /\ Shortfall = LAMPORTS_PER_SOL + 1
    /\ Unwrap(deposit).sol_to_deposit = 2

(* --------------------- accounts that cannot be read -------------------- *)

\* The candidates whose get_account or try_deserialize fails.
Unreadable ==
    {i \in OwnedTrees : ledger[collection[i].tip_distribution_account].kind # "ok"}

\* C16: a candidate whose distribution account cannot be fetched (it does not
\* exist) or does not deserialize is never put on the needs-update list; the
\* run that requests such an account has aborted with the message of the
\* failed call, with no transaction built or submitted; and a tree is on the
\* list for "no root on record" only when its account was fetched,
\* deserialized and has an empty merkle_root.
C16_UnreadableAborts ==
    /\ \A i \in Unreadable :
          LET a == collection[i].tip_distribution_account
          IN  /\ i \notin NeedingSet
              /\ fetched[i] = None
              /\ a \in requested =>
                    /\ pc = "panicked"
                    /\ outcome = (IF ledger[a].kind = "missing"
                                  THEN "fetch expect"
                                  ELSE "failed to deserialize tip_distribution_account state")
                    /\ transactions = <<>>
                    /\ transactions_to_send = {}
                    /\ submitted = {}
                    /\ landed = {}
    /\ \A i \in NeedingSet :
          /\ IsSome(fetched[i])
          /\ Unwrap(fetched[i]).kind = "ok"
          /\ collection[i].tip_distribution_account \in requested

\* The second candidate's account does not exist, after the first was found
\* to need the upload for having no root on record: the run has aborted.
C16_Witness ==
    /\ pc = "panicked"
    /\ outcome = "fetch expect"
    /\ trees_needing_update = <<1>>
    /\ ~IsSome(Unwrap(fetched[1]).merkle_root)
    /\ ledger[collection[2].tip_distribution_account].kind = "missing"
    /\ collection[2].tip_distribution_account \in requested

(* -------------------------- reads before writes ------------------------ *)

\* The distribution accounts of the candidate trees.
CandidateAccounts == {collection[trees[k]].tip_distribution_account : k \in 1..Len(trees)}

\* C17: within a run every read comes before every write.  While the token,
\* the balance or an account is still to be read, nothing has been submitted
\* or has landed; once something is submitted, the token and the balance are
\* held, every candidate's account has been requested and decided on, and the
\* fetched accounts and the needs-update list do not change for the rest of
\* the run.
C17_ReadsPrecedeWrites ==
    /\ [](pc \in {"start", "select", "preflight", "detect"} =>
             /\ submitted = {}
             /\ landed = {}
             /\ transactions_to_send = {})
    /\ [](submitted # {} =>
             /\ IsSome(recent_blockhash)
             /\ IsSome(initial_balance)
             /\ treeIdx > Len(trees)
             /\ requested = CandidateAccounts
             /\ \A k \in 1..Len(trees) : IsSome(fetched[trees[k]])
             /\ TreesOf(submitted) \subseteq
                   {collection[t].tip_distribution_account : t \in NeedingSet})
    /\ [][(submitted # {} /\ pc' # "start") =>
             /\ fetched' = fetched
             /\ requested' = requested
             /\ trees_needing_update' = trees_needing_update
             /\ recent_blockhash' = recent_blockhash
             /\ initial_balance' = initial_balance]_vars

\* Two candidates read and found to need the upload, one transaction landed
\* while the other is still outstanding.
C17_Witness ==
    /\ pc = "sleep"
    /\ Len(trees) = 2
    /\ trees_needing_update = <<1, 2>>
    /\ Cardinality(submitted) = 2
    /\ Cardinality(landed) = 1

(* ---------------------- a signer that owns no tree --------------------- *)

\* C18: when no tree of the collection names the signer as upload authority,
\* the run never panics, whatever the balance (the desired balance is 0); it
\* requests no distribution account, builds and submits nothing, changes no
\* root on the ledger, and returns Ok.
C18_NoOwnedTree ==
    /\ [](OwnedTrees = {} =>
             /\ pc # "panicked"
             /\ outcome \in {"running", "Ok"}
             /\ deposit = None
             /\ trees = <<>>
             /\ DesiredBalance(Len(trees)) = 0
             /\ requested = {}
             /\ \A i \in TreeIds : fetched[i] = None
             /\ trees_needing_update = <<>>
             /\ transactions = <<>>
             /\ transactions_to_send = {}
             /\ submitted = {}
             /\ landed = {}
             /\ ~overwroteClaimed)
    /\ [][OwnedTrees = {} =>
             /\ balance' = balance
             /\ \A a \in TreeIds :
                   /\ ledger'[a].kind = ledger[a].kind
                   /\ IsSome(ledger'[a].merkle_root) = IsSome(ledger[a].merkle_root)
                   /\ IsSome(ledger[a].merkle_root) =>
                         Unwrap(ledger'[a].merkle_root).root =
                            Unwrap(ledger[a].merkle_root).root]_vars
    /\ ((OwnedTrees = {} /\ pc = "start") ~> (pc = "returned" /\ outcome = "Ok"))

\* A run of a signer with no tree and no lamports has returned Ok, past the
\* preflight.
C18_Witness ==
    /\ OwnedTrees = {}
    /\ balance = 0
    /\ IsSome(initial_balance)
    /\ pc = "returned"
    /\ outcome = "Ok"

====
